---- MODULE Spec2Model ----
(***************************************************************************)
(* Bundle notifier: a poll loop (checkForNewBundles) that diffs the        *)
(* catalog list against lastKnownBundleIds and notifies a Discord channel, *)
(* plus the on-demand /debugsend command.  Two variants of the program are *)
(* modelled: "embed" (src/index.js) and "text" (src/unnamed/part_000).     *)
(*                                                                         *)
(* Every await of the source is a separate step, so that setInterval       *)
(* firings and interactions interleave with a tick exactly where the event *)
(* loop lets them.  The list fetch and its json() are one step (nothing is *)
(* read or written between the two awaits).                                *)
(*                                                                         *)
(* An upstream list is any sequence of at most MaxList entries; an entry is *)
(* a bundle with an id or an entry whose id cannot be read (null).  Nothing *)
(* in the source keeps a list from naming an id twice.                     *)
(***************************************************************************)
EXTENDS Integers, Sequences, FiniteSets, TLC

\* ---- bounds ----
NumIds == 3
MaxList == 2
MaxTicks == 3
MaxRequests == 1
\* ticks followed in the specifications with interactions or fairness
MaxTicksShort == 2
MaxName == 4

Ids == 1..NumIds
Ticks == 1..MaxTicks
Requests == 1..MaxRequests

Range(s) == {s[k] : k \in DOMAIN s}

\* an entry of data.data that is null: reading its id throws a TypeError
NoId == 0
Entries == Ids \cup {NoId}

Lists == UNION {[1..n -> Entries] : n \in 0..MaxList}

\* a string is the sequence of its characters; one character of each class the
\* slug's regular expressions tell apart: upper case, lower case, digit,
\* underscore, hyphen, whitespace, other punctuation
Chars == {"A", "b", "7", "_", "-", " ", "!"}
Strings == UNION {[1..n -> Chars] : n \in 0..MaxName}
\* bundle.name: <<>> when absent, else <<string>>
Names == {<<>>} \cup {<<str>> : str \in Strings}
\* bundle.priceStatus ("" when absent) and bundle.price (<<>> when absent)
PriceStatuses == {"Free", "Off-Sale", "Normal", ""}
Prices == {<<>>, <<0>>, <<250>>}

\* the 'id' option of an interaction: <<>> when not provided, else <<string>>
RawIds == {<<>>, <<"">>, <<"7">>}

VARIABLES
    variant,             \* "embed" (index.js) or "text" (part_000)
    DISCORD_BOT_TOKEN,   \* TRUE iff the environment variable is set
    DISCORD_CHANNEL_ID,  \* TRUE iff the environment variable is set
    CLIENT_ID,           \* TRUE iff the environment variable is set
    main,                \* position of the module body / 'ready' handler
    lastKnownBundleIds,  \* the seen set
    ticks,               \* the executions of checkForNewBundles
    sink,                \* messages delivered to the broadcast channel
    reqs,                \* the interactions handled by 'interactionCreate'
    fmt                  \* one construction of an embed from a bundle record

vars == <<variant, DISCORD_BOT_TOKEN, DISCORD_CHANNEL_ID, CLIENT_ID, main,
          lastKnownBundleIds, ticks, sink, reqs, fmt>>

env == <<variant, DISCORD_BOT_TOKEN, DISCORD_CHANNEL_ID, CLIENT_ID>>

\* ---- records ----
\* A tick: pc, newBundles and i are the execution's own state; the other
\* fields record what the execution has met (history, read by the properties):
\* list holds the entries of the fetched list that the execution has read.
IdleTick ==
    [pc |-> "idle", newBundles |-> <<>>, i |-> 0,
     fetch |-> "none", list |-> <<>>, seenStart |-> {}, seenAtFilter |-> {},
     failed |-> {}, alert |-> "none", inCatch |-> FALSE, overlap |-> FALSE]

\* A request: pc, bundleId and replies are the handler's state and output; kind,
\* raw, upstream and replyThrew record what the request was and has met.
IdleReq ==
    [pc |-> "idle", bundleId |-> "", replies |-> <<>>,
     kind |-> "none", raw |-> <<>>, upstream |-> "pending", replyThrew |-> FALSE]

ItemMsg(id, t) == [kind |-> "item", id |-> id, tick |-> t]
AlertMsg(t) == [kind |-> "alert", id |-> 0, tick |-> t]

NoPrice == [text |-> "N/A", amount |-> 0]
IdleFmt == [pc |-> "idle", name |-> <<>>, priceStatus |-> "", price |-> <<>>,
            slug |-> <<>>, linkSlug |-> <<>>, priceString |-> NoPrice]

\* ---- pure parts of the source ----

\* variation: an empty id is replaced too (|| in place of ??)
defaultBundleIdOrEmpty(raw) == IF raw = <<>> \/ raw = <<"">> THEN "126" ELSE raw[1]

\* index.js:197  interaction.options.getString('id') ?? '126'
defaultBundleId(raw) == IF raw = <<>> THEN "126" ELSE raw[1]

\* bundle.id of some entry of the list cannot be read: the forEach or the
\* filter callback throws when it comes to that entry
throws(currentBundles) == \E k \in DOMAIN currentBundles : currentBundles[k] = NoId

\* the entries a forEach has visited before it throws (all of them if it does not)
RECURSIVE visited(_)
visited(currentBundles) ==
    IF currentBundles = <<>> \/ Head(currentBundles) = NoId THEN <<>>
    ELSE <<Head(currentBundles)>> \o visited(Tail(currentBundles))

\* variation: the ids of the list replace the seen set
addAllReplace(seen, currentBundles) == Range(currentBundles)

\* index.js:125 / part_000:88  currentBundles.forEach(b => lastKnownBundleIds.add(b.id))
addAll(seen, currentBundles) == seen \cup Range(currentBundles)

\* variation: the id is not recorded
addIdDropped(seen, id) == seen

\* index.js:135 / part_000:98  lastKnownBundleIds.add(bundle.id)
addId(seen, id) == seen \cup {id}

\* variation: a one-element first list is not taken as the initial scan
isInitialScanOffByOne(seen, currentBundles) == seen = {} /\ Len(currentBundles) > 1

\* index.js:124 / part_000:87
isInitialScan(seen, currentBundles) == seen = {} /\ Len(currentBundles) > 0

Reverse(s) == [k \in 1..Len(s) |-> s[Len(s) + 1 - k]]

\* variation: the new bundles are taken oldest first
filterNewReversed(currentBundles, seen) ==
    Reverse(SelectSeq(currentBundles, LAMBDA b : b \notin seen))

\* index.js:130  currentBundles.filter(bundle => !lastKnownBundleIds.has(bundle.id))
filterNew(currentBundles, seen) == SelectSeq(currentBundles, LAMBDA b : b \notin seen)

\* part_000:93-100  the forEach that pushes and adds each unseen bundle
RECURSIVE collectNew(_, _)
collectNew(currentBundles, seen) ==
    IF currentBundles = <<>> THEN <<>>
    ELSE IF Head(currentBundles) \notin seen
         THEN <<Head(currentBundles)>>
                \o collectNew(Tail(currentBundles), addId(seen, Head(currentBundles)))
         ELSE collectNew(Tail(currentBundles), seen)

\* variation: the catch never tells the requester
catchEmbedSilent(interaction) == [pc |-> "return", emit |-> "none"]

\* variation: the error of a scheduled call is thrown on
catchEmbedRethrow(interaction) ==
    IF interaction THEN [pc |-> "errreply", emit |-> "none"]
    ELSE [pc |-> "reject", emit |-> "none"]

\* index.js:106-111  the catch of createAndSendBundleEmbed
catchEmbed(interaction) ==
    IF interaction THEN [pc |-> "errreply", emit |-> "none"]
    ELSE [pc |-> "return", emit |-> "none"]

\* variation: step 4 always sends to the channel
sendTargetChannel(interaction) == "chan"

\* index.js:99-104  where step 4 sends the embed: the requester's reply or the channel
sendTarget(interaction) == IF interaction THEN "reply" ELSE "chan"

\* index.js:46-112  one await of createAndSendBundleEmbed resolving with
\* outcome out; pc names the await, the result names the next await ("return":
\* the call returns, "reject": the call throws) and what was delivered.
createAndSendBundleEmbed(pc, out, interaction) ==
    CASE pc = "detail" ->
            IF out = "throw" THEN catchEmbed(interaction)
            ELSE IF out = "none"
                 THEN IF interaction THEN [pc |-> "nfreply", emit |-> "none"]
                      ELSE [pc |-> "return", emit |-> "none"]
                 ELSE [pc |-> "thumb", emit |-> "none"]
      [] pc = "thumb" ->
            IF out = "throw" THEN catchEmbed(interaction)
            ELSE [pc |-> sendTarget(interaction), emit |-> "none"]
      [] pc = "chan" ->
            IF out = "throw" THEN catchEmbed(interaction)
            ELSE IF out = "null" THEN [pc |-> "return", emit |-> "none"]
                 ELSE [pc |-> "send", emit |-> "none"]
      [] pc = "send" ->
            IF out = "throw" THEN catchEmbed(interaction)
            ELSE [pc |-> "return", emit |-> "broadcast"]
      [] pc = "reply" ->
            IF out = "throw" THEN catchEmbed(interaction)
            ELSE [pc |-> "return", emit |-> "embed"]
      [] pc = "nfreply" ->
            IF out = "throw" THEN catchEmbed(interaction)
            ELSE [pc |-> "return", emit |-> "notfound"]
      [] pc = "errreply" ->
            IF out = "throw" THEN [pc |-> "reject", emit |-> "none"]
            ELSE [pc |-> "return", emit |-> "error"]

\* part_000:42-60  one await of sendMessage resolving with outcome out
sendMessage(pc, out) ==
    CASE pc = "chan" ->
            IF out = "ok" THEN [pc |-> "send", emit |-> "none"]
            ELSE [pc |-> "return", emit |-> "none"]
      [] pc = "send" ->
            IF out = "ok" THEN [pc |-> "return", emit |-> "broadcast"]
            ELSE [pc |-> "return", emit |-> "none"]

\* part_000:44  the configuration guard of sendMessage
canSend(token, channel) == token /\ channel

\* what an await can resolve to
Outcomes(pc, channel) ==
    CASE pc = "detail" -> {"throw", "none", "ok"}
      [] pc = "chan" -> IF channel THEN {"throw", "null", "ok"} ELSE {"throw"}
      [] OTHER -> {"throw", "ok"}

\* index.js:103 / part_000:52  channel.send resolved: the message is in the channel
deliver(s, emit, msg) == IF emit = "broadcast" THEN Append(s, msg) ELSE s

\* index.js:62,100,109  interaction.editReply resolved: the requester has the reply
editReply(replies, emit, id) ==
    IF emit \in {"embed", "notfound", "error"}
    THEN Append(replies, [kind |-> emit, id |-> id])
    ELSE replies

\* index.js:134-138  the head of the for loop: the next new bundle is added
\* and createAndSendBundleEmbed is called for it (it runs to its first await)
embedLoop(tk, seen) ==
    IF tk.i < Len(tk.newBundles)
    THEN [tk |-> [tk EXCEPT !.i = @ + 1, !.pc = "detail"],
          seen |-> addId(seen, tk.newBundles[tk.i + 1])]
    ELSE [tk |-> [tk EXCEPT !.pc = "done"], seen |-> seen]

\* part_000:104-115  the head of the for loop: sendMessage is called for the
\* next new bundle; without token or channel id every call returns at its guard
textLoop(tk, token, channel) ==
    IF tk.i < Len(tk.newBundles)
    THEN IF canSend(token, channel)
         THEN [tk EXCEPT !.i = @ + 1, !.pc = "chan"]
         ELSE [tk EXCEPT !.i = Len(tk.newBundles), !.pc = "done",
                         !.failed = @ \cup {tk.newBundles[k] : k \in (tk.i + 1)..Len(tk.newBundles)}]
    ELSE [tk EXCEPT !.pc = "done"]

\* variation: the catch throws the error on to the caller
catchCheckRethrow(tk, seen) == [tk |-> [tk EXCEPT !.pc = "rejected"], seen |-> seen]

\* index.js:143-145  the catch of checkForNewBundles: the error is logged
catchCheck(tk, seen) == [tk |-> [tk EXCEPT !.pc = "done"], seen |-> seen]

\* part_000:120-123  the catch of checkForNewBundles: logged, then sendMessage(alert)
catchCheckText(tk, seen, token, channel) ==
    [tk |-> IF canSend(token, channel)
            THEN [tk EXCEPT !.pc = "chan", !.inCatch = TRUE, !.alert = "attempted"]
            ELSE [tk EXCEPT !.pc = "done", !.inCatch = TRUE],
     seen |-> seen]

\* the entries of the list that the tick reads: all, or up to the first one
\* whose id cannot be read
entriesRead(currentBundles) ==
    IF throws(currentBundles) THEN Append(visited(currentBundles), NoId)
    ELSE currentBundles

\* what the tick records of its list fetch: "fail" (fetch rejected, status not
\* ok, or json() rejected), "malformed" (an entry without id), else "ok"
fetched(ok, currentBundles) ==
    IF ~ok THEN "fail" ELSE IF throws(currentBundles) THEN "malformed" ELSE "ok"

\* index.js:116-146  checkForNewBundles from the resolution of the list fetch
\* up to its next await; an exception thrown on the way (also by the forEach
\* of the initial scan or by the filter) is taken by the catch
checkForNewBundles(tk, seen, ok, currentBundles) ==
    LET got == [tk EXCEPT !.fetch = fetched(ok, currentBundles),
                          !.list = entriesRead(currentBundles), !.seenAtFilter = seen]
    IN  IF ~ok THEN catchCheck(got, seen)
        ELSE IF isInitialScan(seen, currentBundles)
        THEN IF throws(currentBundles)
             THEN catchCheck(got, addAll(seen, visited(currentBundles)))
             ELSE [tk |-> [got EXCEPT !.pc = "done"], seen |-> addAll(seen, currentBundles)]
        ELSE IF throws(currentBundles) THEN catchCheck(got, seen)
        ELSE embedLoop([got EXCEPT !.newBundles = filterNew(currentBundles, seen), !.i = 0], seen)

\* part_000:66-124  the same for the plain-text variant; the forEach of
\* part_000:94-100 has added the unseen ids it visited when it throws
checkForNewBundlesText(tk, seen, ok, currentBundles, token, channel) ==
    LET got == [tk EXCEPT !.fetch = fetched(ok, currentBundles),
                          !.list = entriesRead(currentBundles), !.seenAtFilter = seen]
    IN  IF ~ok THEN catchCheckText(got, seen, token, channel)
        ELSE IF isInitialScan(seen, currentBundles)
        THEN IF throws(currentBundles)
             THEN catchCheckText(got, addAll(seen, visited(currentBundles)), token, channel)
             ELSE [tk |-> [got EXCEPT !.pc = "done"], seen |-> addAll(seen, currentBundles)]
        ELSE LET nb == collectNew(visited(currentBundles), seen)
             IN  IF throws(currentBundles)
                 THEN catchCheckText(got, addAll(seen, nb), token, channel)
                 ELSE [tk |-> textLoop([got EXCEPT !.newBundles = nb, !.i = 0], token, channel),
                       seen |-> addAll(seen, nb)]

\* ---- the slug and the price string ----
\* index.js:32  String.prototype.toLowerCase
toLowerCase(str) == [k \in DOMAIN str |-> IF str[k] = "A" THEN "a" ELSE str[k]]

\* \s and \w of the regular expressions
isSpace(c) == c = " "
isWord(c) == c \in {"A", "a", "b", "7", "_"}

RECURSIVE dropWhileSpace(_)
dropWhileSpace(str) ==
    IF str # <<>> /\ isSpace(Head(str)) THEN dropWhileSpace(Tail(str)) ELSE str

RECURSIVE dropWhileHyphen(_)
dropWhileHyphen(str) ==
    IF str # <<>> /\ Head(str) = "-" THEN dropWhileHyphen(Tail(str)) ELSE str

\* index.js:33  .replace(/\s+/g, '-')
RECURSIVE replaceSpaces(_)
replaceSpaces(str) ==
    IF str = <<>> THEN <<>>
    ELSE IF isSpace(Head(str)) THEN <<"-">> \o replaceSpaces(dropWhileSpace(str))
    ELSE <<Head(str)>> \o replaceSpaces(Tail(str))

\* index.js:34  .replace(/[^\w-]+/g, '')
removeNonWord(str) == SelectSeq(str, LAMBDA c : isWord(c) \/ c = "-")

\* variation: hyphen runs are left as they are
collapseHyphensSkipped(str) == str

\* index.js:35  .replace(/--+/g, '-')
RECURSIVE collapseHyphens(_)
collapseHyphens(str) ==
    IF str = <<>> THEN <<>>
    ELSE IF Len(str) >= 2 /\ str[1] = "-" /\ str[2] = "-"
    THEN <<"-">> \o collapseHyphens(dropWhileHyphen(str))
    ELSE <<Head(str)>> \o collapseHyphens(Tail(str))

\* index.js:36  .replace(/^-+/, '')
stripLeading(str) == dropWhileHyphen(str)

\* index.js:37  .replace(/-+$/, '')
stripTrailing(str) == Reverse(dropWhileHyphen(Reverse(str)))

\* index.js:30-38
slugify(name) ==
    IF name = <<>> \/ name[1] = <<>> THEN <<>>
    ELSE stripTrailing(stripLeading(collapseHyphens(removeNonWord(
            replaceSpaces(toLowerCase(name[1]))))))

\* index.js:76-83
priceString(priceStatus, price) ==
    IF priceStatus = "Free" THEN [text |-> "Free", amount |-> 0]
    ELSE IF price # <<>> /\ price[1] # 0 THEN [text |-> "Robux", amount |-> price[1]]
    ELSE IF priceStatus = "Off-Sale" THEN [text |-> "Off-Sale", amount |-> 0]
    ELSE NoPrice

\* ---- initial state ----
Init ==
    /\ variant \in {"embed", "text"}
    /\ DISCORD_BOT_TOKEN \in BOOLEAN
    /\ DISCORD_CHANNEL_ID \in BOOLEAN
    /\ CLIENT_ID \in BOOLEAN
    /\ variant = "text" => ~CLIENT_ID
    /\ main = "start"
    /\ lastKnownBundleIds = {}
    /\ ticks = [t \in Ticks |-> IdleTick]
    /\ sink = <<>>
    /\ reqs = [r \in Requests |-> IdleReq]
    /\ fmt = IdleFmt

\* a call of checkForNewBundles runs to its first await, the list fetch (the
\* record notes whether an earlier call was still awaiting when this one began)
startTick(t) ==
    [ticks EXCEPT ![t] =
        [@ EXCEPT !.pc = "list", !.seenStart = lastKnownBundleIds,
                  !.overlap = \E s \in Ticks : ticks[s].pc \notin {"idle", "done"}]]

\* ---- startup ----
\* index.js:207-212 / part_000:140-145
Login ==
    /\ main = "start"
    /\ main' = IF DISCORD_BOT_TOKEN THEN "login" ELSE "exit"
    /\ UNCHANGED <<env, fmt, lastKnownBundleIds, ticks, sink, reqs>>

\* index.js:150-175 up to the await of rest.put / part_000:128-133
Ready ==
    /\ main = "login"
    /\ IF variant = "embed"
       THEN /\ main' = IF ~CLIENT_ID \/ ~DISCORD_BOT_TOKEN THEN "returned" ELSE "register"
            /\ ticks' = ticks
       ELSE /\ main' = "initial"
            /\ ticks' = startTick(1)
    /\ UNCHANGED <<env, fmt, lastKnownBundleIds, sink, reqs>>

\* index.js:172-183  rest.put settles (either way) and the initial check is called
Registered ==
    /\ main = "register"
    /\ main' = "initial"
    /\ ticks' = startTick(1)
    /\ UNCHANGED <<env, fmt, lastKnownBundleIds, sink, reqs>>

\* index.js:183-185 / part_000:133-137  the awaited initial check is over: setInterval
Scheduled ==
    /\ main = "initial"
    /\ ticks[1].pc = "done"
    /\ main' = "scheduled"
    /\ UNCHANGED <<env, fmt, lastKnownBundleIds, ticks, sink, reqs>>

\* index.js:184 / part_000:136  the interval fires, whatever the earlier ticks
\* are doing; the firings are followed up to tick number last
fire(last) ==
    /\ main = "scheduled"
    /\ \E t \in 1..last :
        /\ ticks[t].pc = "idle"
        /\ \A s \in Ticks : s < t => ticks[s].pc # "idle"
        /\ ticks' = startTick(t)
    /\ UNCHANGED <<env, fmt, main, lastKnownBundleIds, sink, reqs>>

IntervalFire == fire(MaxTicks)

\* the same, followed for the first firings only
IntervalFireShort == fire(MaxTicksShort)

\* ---- the poll tick ----
\* index.js:119-141 / part_000:70-118  the list fetch settles
ListFetched(t) ==
    /\ ticks[t].pc = "list"
    /\ \E ok \in BOOLEAN, currentBundles \in Lists :
        /\ ok \/ currentBundles = <<>>
        /\ LET r == IF variant = "embed"
                    THEN checkForNewBundles(ticks[t], lastKnownBundleIds, ok, currentBundles)
                    ELSE checkForNewBundlesText(ticks[t], lastKnownBundleIds, ok, currentBundles,
                                                DISCORD_BOT_TOKEN, DISCORD_CHANNEL_ID)
           IN  /\ ticks' = [ticks EXCEPT ![t] = r.tk]
               /\ lastKnownBundleIds' = r.seen
    /\ UNCHANGED <<env, fmt, main, sink, reqs>>

\* index.js:137 -> 46-112  an await of the tick's createAndSendBundleEmbed settles
EmbedItem(t) ==
    /\ variant = "embed"
    /\ ticks[t].pc \in {"detail", "thumb", "chan", "send"}
    /\ \E out \in Outcomes(ticks[t].pc, DISCORD_CHANNEL_ID) :
        LET tk == ticks[t]
            id == tk.newBundles[tk.i]
            r == createAndSendBundleEmbed(tk.pc, out, FALSE)
            noted == [tk EXCEPT !.failed = IF out = "ok" THEN @ ELSE @ \cup {id}]
            next == IF r.pc = "return" THEN embedLoop(noted, lastKnownBundleIds)
                    ELSE IF r.pc = "reject" THEN catchCheck(noted, lastKnownBundleIds)
                    ELSE [tk |-> [noted EXCEPT !.pc = r.pc], seen |-> lastKnownBundleIds]
        IN  /\ ticks' = [ticks EXCEPT ![t] = next.tk]
            /\ lastKnownBundleIds' = next.seen
            /\ sink' = deliver(sink, r.emit, ItemMsg(id, t))
    /\ UNCHANGED <<env, fmt, main, reqs>>

\* part_000:114,122 -> 42-60  an await of the tick's sendMessage settles
TextItem(t) ==
    /\ variant = "text"
    /\ ticks[t].pc \in {"chan", "send"}
    /\ \E out \in Outcomes(ticks[t].pc, DISCORD_CHANNEL_ID) :
        LET tk == ticks[t]
            r == sendMessage(tk.pc, out)
        IN  IF tk.inCatch
            THEN /\ ticks' = [ticks EXCEPT ![t] =
                        [tk EXCEPT !.pc = IF r.pc = "return" THEN "done" ELSE r.pc,
                                   !.alert = IF r.emit = "broadcast" THEN "delivered" ELSE @]]
                 /\ sink' = deliver(sink, r.emit, AlertMsg(t))
            ELSE LET id == tk.newBundles[tk.i]
                     noted == [tk EXCEPT !.failed = IF out = "ok" THEN @ ELSE @ \cup {id}]
                 IN  /\ ticks' = [ticks EXCEPT ![t] =
                            IF r.pc = "return"
                            THEN textLoop(noted, DISCORD_BOT_TOKEN, DISCORD_CHANNEL_ID)
                            ELSE [noted EXCEPT !.pc = r.pc]]
                     /\ sink' = deliver(sink, r.emit, ItemMsg(id, t))
    /\ UNCHANGED <<env, fmt, main, lastKnownBundleIds, reqs>>

\* ---- the on-demand command ----
\* index.js:190-200  an interaction arrives; debugsend awaits deferReply
Interaction(r) ==
    /\ variant = "embed"
    /\ main \notin {"start", "exit"}
    /\ reqs[r].pc = "idle"
    /\ \A q \in Requests : q < r => reqs[q].pc # "idle"
    /\ \E isChatInputCommand \in BOOLEAN, commandName \in {"debugsend", "other"}, raw \in RawIds :
        reqs' = [reqs EXCEPT ![r] =
                    IF isChatInputCommand /\ commandName = "debugsend"
                    THEN [@ EXCEPT !.pc = "defer", !.bundleId = defaultBundleId(raw),
                                   !.kind = "debugsend", !.raw = raw]
                    ELSE [@ EXCEPT !.pc = "done", !.kind = "other"]]
    /\ UNCHANGED <<env, fmt, main, lastKnownBundleIds, ticks, sink>>

\* index.js:200-203  deferReply settles; on success createAndSendBundleEmbed is called
Deferred(r) ==
    /\ reqs[r].pc = "defer"
    /\ \E out \in {"throw", "ok"} :
        reqs' = [reqs EXCEPT ![r].pc = IF out = "ok" THEN "detail" ELSE "rejected"]
    /\ UNCHANGED <<env, fmt, main, lastKnownBundleIds, ticks, sink>>

\* index.js:203 -> 46-112  an await of the handler's createAndSendBundleEmbed settles
HandlerStep(r) ==
    /\ reqs[r].pc \in {"detail", "thumb", "chan", "send", "reply", "nfreply", "errreply"}
    /\ \E out \in Outcomes(reqs[r].pc, DISCORD_CHANNEL_ID) :
        LET rq == reqs[r]
            res == createAndSendBundleEmbed(rq.pc, out, TRUE)
        IN  /\ reqs' = [reqs EXCEPT ![r] =
                    [rq EXCEPT !.pc = IF res.pc = "return" THEN "done"
                                      ELSE IF res.pc = "reject" THEN "rejected"
                                      ELSE res.pc,
                               !.replies = editReply(@, res.emit, rq.bundleId),
                               !.upstream =
                                   IF rq.pc = "detail" /\ out = "throw" THEN "failed"
                                   ELSE IF rq.pc = "detail" /\ out = "none" THEN "notfound"
                                   ELSE IF rq.pc = "thumb" /\ out = "throw" THEN "failed"
                                   ELSE IF rq.pc = "thumb" /\ out = "ok" THEN "ok"
                                   ELSE @,
                               !.replyThrew =
                                   @ \/ (rq.pc \in {"reply", "nfreply", "errreply"}
                                            /\ out = "throw")]]
            /\ sink' = deliver(sink, res.emit, ItemMsg(0, 0))
    /\ UNCHANGED <<env, fmt, main, lastKnownBundleIds, ticks>>

Next ==
    \/ Login
    \/ Ready
    \/ Registered
    \/ Scheduled
    \/ IntervalFire
    \/ \E t \in Ticks : ListFetched(t)
    \/ \E t \in Ticks : EmbedItem(t)
    \/ \E t \in Ticks : TextItem(t)
    \/ \E r \in Requests : Interaction(r)
    \/ \E r \in Requests : Deferred(r)
    \/ \E r \in Requests : HandlerStep(r)

Spec == Init /\ [][Next]_vars

\* the poll loop and the interactions together, the interval followed for its
\* first firings
NextServed ==
    \/ Login
    \/ Ready
    \/ Registered
    \/ Scheduled
    \/ IntervalFireShort
    \/ \E t \in Ticks : ListFetched(t)
    \/ \E t \in Ticks : EmbedItem(t)
    \/ \E t \in Ticks : TextItem(t)
    \/ \E r \in Requests : Interaction(r)
    \/ \E r \in Requests : Deferred(r)
    \/ \E r \in Requests : HandlerStep(r)

ServedSpec == Init /\ [][NextServed]_vars

\* the program while no interaction arrives (a handler step changes reqs only,
\* see C10_HandlerFrame, so the poll loop behaves the same with interactions)
NextPoll ==
    \/ Login
    \/ Ready
    \/ Registered
    \/ Scheduled
    \/ IntervalFire
    \/ \E t \in Ticks : ListFetched(t)
    \/ \E t \in Ticks : EmbedItem(t)
    \/ \E t \in Ticks : TextItem(t)

PollSpec == Init /\ [][NextPoll]_vars

\* an awaited call of a tick settles
TickStep(t) == ListFetched(t) \/ EmbedItem(t) \/ TextItem(t)

\* the poll loop when every awaited call settles (with a result or an error)
\* and the ready handler resumes after its awaited initial check
NextPollShort ==
    \/ Login
    \/ Ready
    \/ Registered
    \/ Scheduled
    \/ IntervalFireShort
    \/ \E t \in Ticks : ListFetched(t)
    \/ \E t \in Ticks : EmbedItem(t)
    \/ \E t \in Ticks : TextItem(t)

FairPollSpec ==
    /\ Init /\ [][NextPollShort]_vars
    /\ \A t \in Ticks : WF_vars(TickStep(t))
    /\ WF_vars(Scheduled)

\* ---- the construction of an embed, on its own ----
InitFormat ==
    /\ variant = "embed"
    /\ DISCORD_BOT_TOKEN = TRUE
    /\ DISCORD_CHANNEL_ID = TRUE
    /\ CLIENT_ID = TRUE
    /\ main = "start"
    /\ lastKnownBundleIds = {}
    /\ ticks = [t \in Ticks |-> IdleTick]
    /\ sink = <<>>
    /\ reqs = [r \in Requests |-> IdleReq]
    /\ \E name \in Names, priceStatus \in PriceStatuses, price \in Prices :
        fmt = [IdleFmt EXCEPT !.pc = "input", !.name = name,
                              !.priceStatus = priceStatus, !.price = price]

\* index.js:72-83  step 3 of createAndSendBundleEmbed: slug, link and price string
BuildEmbed ==
    /\ fmt.pc = "input"
    /\ fmt' = [fmt EXCEPT !.pc = "built",
                          !.slug = slugify(fmt.name),
                          !.linkSlug = IF slugify(fmt.name) = <<>> THEN <<"-">>
                                       ELSE slugify(fmt.name),
                          !.priceString = priceString(fmt.priceStatus, fmt.price)]
    /\ UNCHANGED <<env, main, lastKnownBundleIds, ticks, sink, reqs>>

FormatSpec == InitFormat /\ [][BuildEmbed]_vars

\* ---- a whole tick of either variant, as a function ----
\* index.js:132-141  a tick of index.js from its first await after the list
\* fetch to its end, every awaited call resolving with a result
RECURSIVE runEmbed(_, _, _, _)
runEmbed(tk, seen, s, t) ==
    IF tk.pc = "done" THEN [seen |-> seen, sink |-> s]
    ELSE LET r == createAndSendBundleEmbed(tk.pc, "ok", FALSE)
             next == IF r.pc = "return" THEN embedLoop(tk, seen)
                     ELSE IF r.pc = "reject" THEN catchCheck(tk, seen)
                     ELSE [tk |-> [tk EXCEPT !.pc = r.pc], seen |-> seen]
         IN  runEmbed(next.tk, next.seen,
                      deliver(s, r.emit, ItemMsg(tk.newBundles[tk.i], t)), t)

\* part_000:102-123  the same for part_000
RECURSIVE runText(_, _, _, _, _)
runText(tk, s, t, token, channel) ==
    IF tk.pc = "done" THEN s
    ELSE LET r == sendMessage(tk.pc, "ok")
         IN  IF tk.inCatch
             THEN runText([tk EXCEPT !.pc = IF r.pc = "return" THEN "done" ELSE r.pc],
                          deliver(s, r.emit, AlertMsg(t)), t, token, channel)
             ELSE runText(IF r.pc = "return" THEN textLoop(tk, token, channel)
                          ELSE [tk EXCEPT !.pc = r.pc],
                          deliver(s, r.emit, ItemMsg(tk.newBundles[tk.i], t)),
                          t, token, channel)

\* index.js:116-146  one whole tick of index.js on the fetch result (ok, currentBundles)
tickEmbed(seen, s, t, ok, currentBundles) ==
    LET r == checkForNewBundles([IdleTick EXCEPT !.pc = "list", !.seenStart = seen],
                                seen, ok, currentBundles)
    IN  runEmbed(r.tk, r.seen, s, t)

\* part_000:66-124  one whole tick of part_000 on the same fetch result
tickText(seen, s, t, ok, currentBundles, token, channel) ==
    LET r == checkForNewBundlesText([IdleTick EXCEPT !.pc = "list", !.seenStart = seen],
                                    seen, ok, currentBundles, token, channel)
    IN  [seen |-> r.seen, sink |-> runText(r.tk, s, t, token, channel)]

\* the variant v run tick after tick, every per-item call resolving with a
\* result, on the list-fetch results that the ticks 1..n of this run have met
RECURSIVE sequentialRun(_, _)
sequentialRun(v, n) ==
    IF n = 0 THEN [seen |-> {}, sink |-> <<>>]
    ELSE LET p == sequentialRun(v, n - 1)
             ok == ticks[n].fetch # "fail"
         IN  IF v = "embed"
             THEN tickEmbed(p.seen, p.sink, n, ok, ticks[n].list)
             ELSE tickText(p.seen, p.sink, n, ok, ticks[n].list, TRUE, TRUE)

\* the program while its initial check is awaiting the list (a tick step leaves
\* reqs unchanged, so the handler behaves the same while ticks run)
NextHandler ==
    \/ Login
    \/ Ready
    \/ Registered
    \/ \E r \in Requests : Interaction(r)
    \/ \E r \in Requests : Deferred(r)
    \/ \E r \in Requests : HandlerStep(r)

HandlerSpec == Init /\ [][NextHandler]_vars

\* ---- properties ----
InFlight(t) == ticks[t].pc \notin {"idle", "done"}
Done(t) == ticks[t].pc = "done"
FetchedOk(t) == ticks[t].fetch = "ok"
\* the tick computed its delta against a non-empty seen set
Steady(t) == FetchedOk(t) /\ ticks[t].seenAtFilter # {}
Delta(t) == Range(ticks[t].list) \ ticks[t].seenAtFilter
\* the item notifications tick t has delivered for id
NotifsOf(t, id) == Cardinality({k \in DOMAIN sink : sink[k] = ItemMsg(id, t)})
\* the ids for which tick t has entered its loop body
Attempted(t) == {ticks[t].newBundles[k] : k \in 1..ticks[t].i}
\* tick t's list fetch settles in this step
Fetches(t) == ticks[t].pc = "list" /\ ticks'[t].pc # "list"

\* C1: when a list fetch succeeds with a non-empty list while the seen set is
\* empty, that step makes the seen set exactly the ids of the list, ends the
\* tick, and the tick has delivered nothing to the channel.
C1_Bootstrap ==
    [][\A t \in Ticks :
        (Fetches(t) /\ ticks'[t].fetch = "ok" /\ lastKnownBundleIds = {}
            /\ ticks'[t].list # <<>>)
        => /\ lastKnownBundleIds' = Range(ticks'[t].list)
           /\ ticks'[t].pc = "done"
           /\ sink' = sink
           /\ \A k \in DOMAIN sink' : sink'[k].tick # t]_vars

C1_Witness ==
    \E t \in Ticks :
        /\ Done(t) /\ FetchedOk(t) /\ ticks[t].seenAtFilter = {}
        /\ Len(ticks[t].list) = 2
        /\ lastKnownBundleIds = Range(ticks[t].list)
        /\ sink = <<>>

\* C2: at the end of a steady tick whose fetch succeeded, every id
\* of the list that was not seen at the start of the tick has exactly one
\* notification from the tick and is seen, and every id seen at the start has none.
C2_ExactlyOneWhateverFails ==
    \A t \in Ticks :
        (Done(t) /\ FetchedOk(t) /\ ticks[t].seenStart # {})
        => \A id \in Range(ticks[t].list) :
              IF id \notin ticks[t].seenStart
              THEN NotifsOf(t, id) = 1 /\ id \in lastKnownBundleIds
              ELSE NotifsOf(t, id) = 0

\* C3: the channel never holds two item notifications for the same id.
C3_AtMostOnce ==
    \A j, k \in DOMAIN sink :
        (j < k /\ sink[j].kind = "item" /\ sink[k].kind = "item")
        => sink[j].id # sink[k].id

\* C4: at most one execution of checkForNewBundles is in flight.
C4_NonOverlap == Cardinality({t \in Ticks : InFlight(t)}) <= 1

\* C5: two item notifications of the same tick are in the channel in the
\* order in which their ids stand in the list the tick fetched.
C5_OrderPreserved ==
    \A j, k \in DOMAIN sink :
        (j < k /\ sink[j].kind = "item" /\ sink[k].kind = "item"
            /\ sink[j].tick = sink[k].tick)
        => LET l == ticks[sink[j].tick].list
           IN  \E a, b \in DOMAIN l : a < b /\ l[a] = sink[j].id /\ l[b] = sink[k].id

C5_Witness ==
    \E t \in Ticks :
        /\ Done(t) /\ Steady(t) /\ Len(ticks[t].list) = 2
        /\ Len(sink) >= 2
        /\ sink[Len(sink) - 1] = ItemMsg(ticks[t].list[1], t)
        /\ sink[Len(sink)] = ItemMsg(ticks[t].list[2], t)

\* C6: when a tick's fetch returns the list of a steady tick that has already
\* completed with a successful fetch, that step ends the tick with no new
\* bundle, the seen set unchanged and nothing delivered.
C6_Idempotence ==
    [][\A t \in Ticks : \A s \in Ticks \ {t} :
        (Fetches(t) /\ ticks'[t].fetch = "ok"
            /\ Done(s) /\ Steady(s) /\ ticks'[t].list = ticks[s].list)
        => /\ ticks'[t].pc = "done"
           /\ ticks'[t].newBundles = <<>>
           /\ lastKnownBundleIds' = lastKnownBundleIds
           /\ sink' = sink]_vars

C6_Witness ==
    \E s, t \in Ticks :
        /\ s < t /\ Done(s) /\ Steady(s) /\ Done(t) /\ Steady(t)
        /\ ticks[s].list = ticks[t].list
        /\ \E id \in Ids : NotifsOf(s, id) = 1
        /\ ticks[t].seenStart = ticks[s].seenAtFilter \cup Range(ticks[s].list)
        /\ ticks[t].newBundles = <<>>
        /\ \A id \in Ids : NotifsOf(t, id) = 0

\* the list fetch of tick t has failed: no response, a status that is not ok,
\* a body that is not JSON, or a body with an entry without id
FetchFailed(t) == ticks[t].fetch \in {"fail", "malformed"}

\* C7: a step in which a steady tick's list fetch fails, and every later step
\* of that tick, leaves the seen set unchanged and delivers no item
\* notification; and a fetch that succeeds on a non-empty seen set takes as new
\* exactly the ids of its list that are not in the seen set.
C7_TickIsolation ==
    [][\A t \in Ticks :
        /\ (Fetches(t) /\ ticks'[t].fetch \in {"fail", "malformed"}
                /\ lastKnownBundleIds # {})
            => /\ lastKnownBundleIds' = lastKnownBundleIds
               /\ sink' = sink
               /\ ticks'[t].newBundles = <<>>
        /\ (FetchFailed(t) /\ ticks[t].seenAtFilter # {} /\ ticks'[t] # ticks[t])
            => /\ lastKnownBundleIds' = lastKnownBundleIds
               /\ sink' \in {sink, Append(sink, AlertMsg(t))}
        /\ (Fetches(t) /\ ticks'[t].fetch = "ok" /\ lastKnownBundleIds # {})
            => Range(ticks'[t].newBundles) = Range(ticks'[t].list) \ lastKnownBundleIds]_vars

\* C7 for a fetch that is rejected, has a status that is not ok, or has a body
\* that is not JSON: both variants leave the seen set as it was
C7_NoResponse ==
    [][\A t \in Ticks :
        /\ (Fetches(t) /\ ticks'[t].fetch = "fail")
            => /\ lastKnownBundleIds' = lastKnownBundleIds
               /\ sink' = sink
               /\ ticks'[t].newBundles = <<>>
        /\ (ticks[t].fetch = "fail" /\ ticks'[t] # ticks[t])
            => /\ lastKnownBundleIds' = lastKnownBundleIds
               /\ sink' \in {sink, Append(sink, AlertMsg(t))}]_vars

\* C8: a tick whose list fetch failed sends an alert to the channel if and
\* only if the seen set was non-empty.
C8_AlertIffBootstrapped ==
    \A t \in Ticks :
        /\ ticks[t].alert # "none" => ticks[t].seenAtFilter # {}
        /\ (Done(t) /\ FetchFailed(t) /\ ticks[t].seenAtFilter # {})
            => ticks[t].alert # "none"

\* C9: at the end of a steady tick whose fetch succeeded, every new id is in
\* the seen set and the loop body has been entered for it, whichever calls failed.
C9_PerEntryIsolation ==
    \A t \in Ticks :
        (Done(t) /\ Steady(t))
        => /\ Delta(t) \subseteq lastKnownBundleIds
           /\ Delta(t) \subseteq Attempted(t)

C9_Witness ==
    \E t \in Ticks :
        /\ Done(t) /\ Steady(t) /\ Len(ticks[t].newBundles) = 2
        /\ ticks[t].failed = {ticks[t].newBundles[1]}
        /\ NotifsOf(t, ticks[t].newBundles[2]) = 1
        /\ ticks[t].newBundles[2] \in lastKnownBundleIds

\* C10: a step of the interaction handler changes neither the seen set nor
\* the channel; what it delivers goes to the requester's replies.
C10_HandlerFrame ==
    [][reqs' # reqs => /\ lastKnownBundleIds' = lastKnownBundleIds
                        /\ sink' = sink
                        /\ ticks' = ticks]_vars

C10_Witness ==
    \E r \in Requests : \E t \in Ticks :
        /\ reqs[r].pc = "done"
        /\ Len(reqs[r].replies) = 1
        /\ reqs[r].replies[1].kind = "embed"
        /\ ticks[t].pc = "send"
        /\ sink = <<>>

\* an on-demand request that has ended
Ended(r) == reqs[r].kind = "debugsend" /\ reqs[r].pc \in {"done", "rejected"}

\* C11 (as claimed): every on-demand request that has ended has exactly one reply.
C11_ExactlyOneReply ==
    \A r \in Requests : Ended(r) => Len(reqs[r].replies) = 1

\* C11 (amended): no request has more than one reply; a request that returned
\* has exactly one: the embed when detail and thumbnail succeeded, 'not found'
\* when the detail lookup found no record, the failure message when an upstream
\* call failed or when an editReply threw; a request whose deferReply or whose
\* editReply of the failure message threw has none; the reply names the bundle id.
C11_OnDemandReply ==
    \A r \in Requests :
        /\ Len(reqs[r].replies) <= 1
        /\ reqs[r].kind = "other" => reqs[r].replies = <<>>
        /\ (Ended(r) /\ reqs[r].pc = "done")
            => /\ Len(reqs[r].replies) = 1
               /\ reqs[r].replies[1].id = reqs[r].bundleId
               /\ reqs[r].replies[1].kind =
                    IF reqs[r].replyThrew \/ reqs[r].upstream = "failed" THEN "error"
                    ELSE IF reqs[r].upstream = "notfound" THEN "notfound"
                    ELSE "embed"
        /\ (Ended(r) /\ reqs[r].pc = "rejected")
            => /\ reqs[r].replies = <<>>
               /\ reqs[r].upstream = "pending" \/ reqs[r].replyThrew

C11_Witness ==
    \E r \in Requests :
        /\ Ended(r) /\ reqs[r].pc = "done"
        /\ reqs[r].upstream = "notfound" /\ reqs[r].replyThrew
        /\ Len(reqs[r].replies) = 1 /\ reqs[r].replies[1].kind = "error"

\* C15 (as claimed): the handler works on '126' when the id option is absent or
\* empty, and on the given id otherwise.
C15_DefaultWhenAbsentOrEmpty ==
    \A r \in Requests :
        reqs[r].kind = "debugsend"
        => reqs[r].bundleId =
              IF reqs[r].raw = <<>> \/ reqs[r].raw = <<"">> THEN "126" ELSE reqs[r].raw[1]

\* C15 (amended): the handler works on '126' exactly when the id option is
\* absent, and on the given id, the empty string included, otherwise; every
\* reply names that id.
C15_DefaultId ==
    \A r \in Requests :
        reqs[r].kind = "debugsend"
        => LET id == IF reqs[r].raw = <<>> THEN "126" ELSE reqs[r].raw[1]
           IN  /\ reqs[r].bundleId = id
               /\ \A k \in DOMAIN reqs[r].replies : reqs[r].replies[k].id = id

C15_Witness ==
    \E r \in Requests :
        /\ reqs[r].kind = "debugsend" /\ reqs[r].raw = <<"">>
        /\ reqs[r].pc = "done"
        /\ Len(reqs[r].replies) = 1 /\ reqs[r].replies[1].id = ""

\* C12: no execution of checkForNewBundles ends by throwing; every started
\* execution returns once its awaited calls have settled, whatever they settle
\* to; and once the initial check has returned the interval is armed.
C12_ScheduledPathResilience ==
    /\ \A t \in Ticks : [](ticks[t].pc # "rejected")
    /\ \A t \in Ticks : (ticks[t].pc = "list") ~> Done(t)
    /\ (main = "initial") ~> (main = "scheduled")

C12_Witness ==
    \E s, t \in Ticks :
        /\ s < t /\ Done(s) /\ Done(t)
        /\ Steady(t) /\ ticks[t].failed # {}
        /\ main = "scheduled"

\* C13: when the bot token or the channel id is not set, checkForNewBundles is
\* never called and the interval is never armed.
C13_ConfigurationGate ==
    (~DISCORD_BOT_TOKEN \/ ~DISCORD_CHANNEL_ID)
    => /\ \A t \in Ticks : ticks[t].pc = "idle"
       /\ main \notin {"initial", "scheduled"}

\* C14: the price string is 'Free' for status Free, else 'Off-Sale' for status
\* Off-Sale, else '<price> Robux' when a price is present, else 'N/A'.
C14_PricePriority ==
    fmt.pc = "built"
    => fmt.priceString =
          IF fmt.priceStatus = "Free" THEN [text |-> "Free", amount |-> 0]
          ELSE IF fmt.priceStatus = "Off-Sale" THEN [text |-> "Off-Sale", amount |-> 0]
          ELSE IF fmt.price # <<>> THEN [text |-> "Robux", amount |-> fmt.price[1]]
          ELSE [text |-> "N/A", amount |-> 0]

\* C16: the slug holds only lower-case letters, digits, underscores and
\* hyphens, no two hyphens in a row and none at either end; without its
\* hyphens it is the name's word characters in lower case; it is empty for an
\* absent or empty name; and the slug of a slug is the slug.
C16_Slug ==
    fmt.pc = "built"
    => LET out == fmt.slug
           in == IF fmt.name = <<>> THEN <<>> ELSE fmt.name[1]
           kept == SelectSeq(in, LAMBDA c : c \in {"A", "b", "7", "_"})
       IN  /\ \A k \in DOMAIN out : out[k] \in {"a", "b", "7", "_", "-"}
           /\ \A k \in DOMAIN out : k > 1 => ~(out[k - 1] = "-" /\ out[k] = "-")
           /\ out # <<>> => (out[1] # "-" /\ out[Len(out)] # "-")
           /\ in = <<>> => out = <<>>
           /\ SelectSeq(out, LAMBDA c : c # "-")
                = [k \in DOMAIN kept |-> IF kept[k] = "A" THEN "a" ELSE kept[k]]
           /\ \A k \in DOMAIN out :
                (out[k] = "-") =>
                    \E a, b \in DOMAIN in :
                        /\ a < b /\ in[a] \in {"-", " "}
                        /\ \E x \in 1..a : in[x] \in {"A", "b", "7", "_"}
                        /\ in[b] \in {"A", "b", "7", "_"}
           /\ slugify(<<out>>) = out

C16_Witness ==
    /\ fmt.pc = "built"
    /\ fmt.name = << <<"A", " ", "-", "b">> >>
    /\ fmt.slug = <<"a", "-", "b">>

\* tick t hands an item notification for id to the channel in this step
Notifies(t, id) == sink' = Append(sink, ItemMsg(id, t))

\* C17 (first part): an item notification is handed to the channel only for an
\* id that is already in the seen set, and an id whose lookup or delivery
\* failed stays in the seen set.
C17_MarkedAndKept ==
    [][/\ \A t \in Ticks, id \in Ids : Notifies(t, id) => id \in lastKnownBundleIds
       /\ \A t \in Ticks : ticks'[t].failed \subseteq lastKnownBundleIds'
       /\ lastKnownBundleIds \subseteq lastKnownBundleIds']_vars

\* C17: an item notification is handed to the channel only for an id already
\* in the seen set, a failed lookup or delivery leaves the id in the seen set,
\* and no tick notifies an id that an earlier tick has notified or has failed
\* to notify.
C17_MarkBeforeNotify ==
    [][/\ \A t \in Ticks, id \in Ids : Notifies(t, id) => id \in lastKnownBundleIds
       /\ \A t \in Ticks : ticks'[t].failed \subseteq lastKnownBundleIds'
       /\ lastKnownBundleIds \subseteq lastKnownBundleIds'
       /\ \A t \in Ticks, id \in Ids :
            Notifies(t, id)
            => \A s \in Ticks :
                 s < t => (id \notin ticks[s].failed /\ NotifsOf(s, id) = 0)]_vars

\* C17 for ticks that do not overlap: a tick that takes its delta after the id
\* was marked never notifies it
C17_NotAgainAfterMark ==
    \A t \in Ticks, id \in Ids : id \in ticks[t].seenAtFilter => NotifsOf(t, id) = 0

\* C18: no step removes an id from the seen set, so a non-empty seen set never
\* becomes empty again; and a list fetch that succeeds with an empty list while
\* the seen set is empty ends the tick, leaves the seen set empty and hands
\* nothing to the channel.
C18_Monotone ==
    [][/\ lastKnownBundleIds \subseteq lastKnownBundleIds'
       /\ lastKnownBundleIds # {} => lastKnownBundleIds' # {}
       /\ \A t \in Ticks :
            (Fetches(t) /\ ticks'[t].fetch = "ok" /\ ticks'[t].list = <<>>
                /\ lastKnownBundleIds = {})
            => /\ lastKnownBundleIds' = {}
               /\ sink' = sink
               /\ ticks'[t].pc = "done"
               /\ ticks'[t].newBundles = <<>>]_vars

C18_Witness ==
    \E s, t, u \in Ticks :
        /\ s < t /\ t < u
        /\ Done(s) /\ FetchedOk(s) /\ ticks[s].list = <<>> /\ ticks[s].seenAtFilter = {}
        /\ Done(t) /\ FetchedOk(t) /\ ticks[t].list # <<>> /\ ticks[t].seenAtFilter = {}
        /\ Done(u) /\ Steady(u) /\ Delta(u) # {}
        /\ ticks[u].seenAtFilter \subseteq lastKnownBundleIds
        /\ Delta(u) \subseteq lastKnownBundleIds

\* tick t ends in this step
Ends(t) == ticks[t].pc # "done" /\ ticks'[t].pc = "done"

\* C19: in the step that ends a tick whose list fetch succeeded, the seen set
\* is its value at the start of the tick united with the ids of the fetched
\* list, whichever lookups and deliveries of the tick failed.
C19_ExactUpdate ==
    [][\A t \in Ticks :
        (Ends(t) /\ ticks'[t].fetch = "ok")
        => lastKnownBundleIds' = ticks'[t].seenStart \cup Range(ticks'[t].list)]_vars

\* C19 for the tick's own steps: a step of tick t adds only ids of t's list,
\* and when t ends after a successful fetch every id of its list is in the
\* seen set
C19_OwnUpdate ==
    [][\A t \in Ticks :
        /\ ticks'[t] # ticks[t]
            => (lastKnownBundleIds' \ lastKnownBundleIds) \subseteq Range(ticks'[t].list)
        /\ (Ends(t) /\ ticks'[t].fetch = "ok")
            => (ticks'[t].seenStart \cup Range(ticks'[t].list)) \subseteq lastKnownBundleIds']_vars

\* the item notifications of a channel, in order
Items(s) == SelectSeq(s, LAMBDA m : m.kind = "item")

\* no execution of checkForNewBundles is awaiting
Quiescent == \A t \in Ticks : ticks[t].pc \in {"idle", "done"}
\* no execution began while another was awaiting
Sequential == \A t \in Ticks : ~ticks[t].overlap
\* every per-item call made so far has resolved with a result
NoItemFailure == \A t \in Ticks : ticks[t].failed = {}
Started == Cardinality({t \in Ticks : ticks[t].pc # "idle"})
otherVariant == IF variant = "embed" THEN "text" ELSE "embed"

\* C20: at every tick boundary of a run whose ticks did not overlap and whose
\* per-item calls all resolved with a result, the seen set and the item
\* notifications in the channel are those of the other variant run tick after
\* tick on the same list-fetch results.
C20_VariantEquivalence ==
    (Quiescent /\ Sequential /\ NoItemFailure)
    => LET o == sequentialRun(otherVariant, Started)
       IN  /\ lastKnownBundleIds = o.seen
           /\ Items(sink) = Items(o.sink)

\* C20 on lists in which every entry has an id and no id stands twice
C20_OnDistinctIds ==
    (/\ Quiescent /\ Sequential /\ NoItemFailure
     /\ \A t \in Ticks : /\ ticks[t].fetch # "malformed"
                          /\ \A a, b \in DOMAIN ticks[t].list :
                                a # b => ticks[t].list[a] # ticks[t].list[b])
    => LET o == sequentialRun(otherVariant, Started)
       IN  /\ lastKnownBundleIds = o.seen
           /\ Items(sink) = Items(o.sink)

====
